---------------------------- MODULE Spec2Model ----------------------------
(***************************************************************************)
(* A model of four pieces of query-core:                                   *)
(*   - createRetryer      (the retry executor),                            *)
(*   - Removable          (the eviction scheduler: gcTime and gcTimeout),  *)
(*   - Subscribable       (the listener registry),                         *)
(*   - createNotifyManager (the notification scheduler).                    *)
(* The components share no state, so each has its own specification:       *)
(* SpecRetryer, SpecRemovable, SpecSubscribable, SpecNotify.  In each, the *)
(* variables of the other three components stay parked in their initial    *)
(* state.  SpecRetryerNoCancel is SpecRetryer for a caller that never      *)
(* calls cancel() or cancelRetry().  SpecRetryerLive is SpecRetryer for a  *)
(* numeric retry policy, with the fairness the host's event loop gives the *)
(* retry loop.                                                             *)
(***************************************************************************)
EXTENDS Integers, Sequences, FiniteSets

\* ------------------------------------------------------------------ bounds

\* Largest numeric retry policy (config.retry) explored.
MaxRetry == 2

\* Cap on invocations of config.fn, so that retry = true (or a retry
\* predicate) does not run forever.  Two more than MaxRetry, which also
\* leaves room for the default retry count whenever that is at most
\* MaxRetry + 1.
MaxAttempts == MaxRetry + 2

\* ------------------------------------------------------------- variables

VARIABLES
  \* --- createRetryer: config and external collaborators
  networkMode,       \* config.networkMode
  retry,             \* config.retry
  isServer,          \* utils.isServer (also read by Removable)
  online,            \* onlineManager.isOnline()
  focused,           \* focusManager.isFocused()
  \* --- createRetryer: closure state
  isRetryCancelled,
  failureCount,
  isResolved,
  continueFn,        \* "undefined" | "set"
  promise,           \* the returned promise: [status, value]
  \* --- createRetryer: position of the asynchronous loop
  pc,                \* "new" | "inflight" | "settled" | "delay" | "paused"
                     \*   | "decide" | "startRun" | "done"
  pauseKind,         \* "start" (pause().then(run)) | "retry" (pause in run)
  gateResolved,      \* continueResolve of the current pause promise was called
  attemptResult,     \* outcome the in-flight attempt settled with
  error,             \* the `error` the catch handler closed over
  \* --- createRetryer: what the callbacks of config observed
  fnCalls,
  onSuccessLog,
  onErrorLog,
  onFailLog,
  onPauseCount,
  onContinueCount,
  abortCount,
  continueReturn,    \* what the last call of continue() returned: "none"
                     \*   (not called yet) | "promise" | "resolved"
  \* --- Removable
  gcTime,            \* this.gcTime
  gcTimeout,         \* this.#gcTimeout: 0 for undefined, else a timer handle
  timers,            \* the host's live timers (handles setTimeout returned
                     \*   that have neither fired nor been cleared)
  issued,            \* number of handles setTimeout has returned so far
  evictLog,          \* calls of optionalRemove: <<handle that fired, issued>>
  scheduleCalls,     \* number of scheduleGc calls
  requested,         \* the values updateGcTime was called with, defaults
                     \*   filled in
  destroyInfo,       \* whether destroy was called, and `issued` and
                     \*   Len(evictLog) at its last call
  \* --- Subscribable
  listeners,         \* this.listeners
  handles,           \* the unsubscribe closures returned so far: handles[h]
                     \*   is the listener closure h captured
  subLog,            \* every subscribe / unsubscribe call: the listeners
                     \*   before and after it and the hook it invoked
  \* --- createNotifyManager
  queue,
  transactions,
  tasks,             \* the host's timer queue of scheduleFn (setTimeout 0):
                     \*   indexes into `dispatched`, first in first out
  dispatched,        \* every closure handed to scheduleFn so far
  ctx,               \* "idle" | "user" | "task": what the event loop runs
  current,           \* the task being run (index into dispatched), or 0
  idx,               \* position in originalQueue.forEach of the running task
  throwing,          \* an exception is propagating up the call stack
  scheduled,         \* per callback passed to schedule(): depth, batch and
                     \*   the task running at the call
  delivered,         \* every callback invocation: <<callback, task>>
  batchSeq,          \* number of outermost batch() calls begun
  batchCalls,        \* number of batch() calls begun
  aborted            \* tasks ended by a callback that threw

retryerCfg == <<networkMode, retry, isServer>>
retryerEnv == <<online, focused>>
retryerSettle == <<isResolved, onSuccessLog, onErrorLog, promise, gateResolved>>
retryerVars ==
  <<networkMode, retry, isServer, online, focused, isRetryCancelled,
    failureCount, isResolved, continueFn, promise, pc, pauseKind,
    gateResolved, attemptResult, error, fnCalls, onSuccessLog, onErrorLog,
    onFailLog, onPauseCount, onContinueCount, abortCount, continueReturn>>

removableVars ==
  <<gcTime, gcTimeout, timers, issued, evictLog, scheduleCalls, requested,
    destroyInfo>>
subscribableVars == <<listeners, handles, subLog>>
notifyVars ==
  <<queue, transactions, tasks, dispatched, ctx, current, idx, throwing,
    scheduled, delivered, batchSeq, batchCalls, aborted>>

vars == <<retryerVars, removableVars, subscribableVars, notifyVars>>

\* What the actions of one component leave alone.
notRetryer == <<removableVars, subscribableVars, notifyVars>>
notRemovable ==
  <<networkMode, retry, isServer, online, focused, isRetryCancelled,
    failureCount, isResolved, continueFn, promise, pc, pauseKind,
    gateResolved, attemptResult, error, fnCalls, onSuccessLog, onErrorLog,
    onFailLog, onPauseCount, onContinueCount, abortCount, continueReturn,
    subscribableVars, notifyVars>>
notSubscribable == <<retryerVars, removableVars, notifyVars>>
notNotify == <<retryerVars, removableVars, subscribableVars>>

\* ============================================================ createRetryer

NetworkModes == {"undefined", "online", "always", "offlineFirst"}

\* RetryValue: undefined | boolean | number | ShouldRetryFunction
RetryValues ==
  {[kind |-> k, n |-> 0] : k \in {"undefined", "false", "true", "function"}}
    \cup {[kind |-> "number", n |-> i] : i \in 0 .. MaxRetry}

\* CancelOptions, each flag undefined or true: cancel() (`options` itself
\* undefined reads both flags as undefined), cancel({ revert: true }) and
\* cancel({ silent: true }).
Flag == {"undefined", "true"}
CancelOptions ==
  {o \in [revert : Flag, silent : Flag] :
     o.revert = "undefined" \/ o.silent = "undefined"}

NoValue == [kind |-> "none", attempt |-> 0]
Data(n) == [kind |-> "data", attempt |-> n]
Failure(n) == [kind |-> "error", attempt |-> n]

CancelledError(options) ==
  [kind |-> "cancelled", revert |-> options.revert, silent |-> options.silent]

isCancelledError(value) == value.kind = "cancelled"

DefaultRetryServer == 0
DefaultRetryClient == 3

canFetch_alwaysOrOnline(mode) == mode = "always" \/ online

canFetch(mode) ==
  IF (IF mode = "undefined" THEN "online" ELSE mode) = "online"
  THEN online
  ELSE TRUE

shouldPause == ~focused \/ (networkMode # "always" /\ ~online)

\* continueFn?.() as called from resolve/reject, where isResolved is already
\* true: canContinue holds and the pause promise is resolved.
ReleaseGateOnSettle ==
  gateResolved' = IF continueFn = "set" THEN TRUE ELSE gateResolved

resolve_unguarded(value) ==
  /\ isResolved' = TRUE
  /\ onSuccessLog' = Append(onSuccessLog, value)
  /\ onErrorLog' = onErrorLog
  /\ promise' = IF promise.status = "pending"
                THEN [status |-> "fulfilled", value |-> value]
                ELSE promise
  /\ ReleaseGateOnSettle

resolve(value) ==
  IF ~isResolved
  THEN /\ isResolved' = TRUE
       /\ onSuccessLog' = Append(onSuccessLog, value)
       /\ onErrorLog' = onErrorLog
       /\ promise' = IF promise.status = "pending"
                     THEN [status |-> "fulfilled", value |-> value]
                     ELSE promise
       /\ ReleaseGateOnSettle
  ELSE UNCHANGED retryerSettle

reject_unguarded(value) ==
  /\ isResolved' = TRUE
  /\ onErrorLog' = Append(onErrorLog, value)
  /\ onSuccessLog' = onSuccessLog
  /\ promise' = IF promise.status = "pending"
                THEN [status |-> "rejected", value |-> value]
                ELSE promise
  /\ ReleaseGateOnSettle

reject(value) ==
  IF ~isResolved
  THEN /\ isResolved' = TRUE
       /\ onErrorLog' = Append(onErrorLog, value)
       /\ onSuccessLog' = onSuccessLog
       /\ promise' = IF promise.status = "pending"
                     THEN [status |-> "rejected", value |-> value]
                     ELSE promise
       /\ ReleaseGateOnSettle
  ELSE UNCHANGED retryerSettle

\* pause(): a new pause promise, continueFn installed, config.onPause called.
\* The loop then waits for the promise (pc = "paused").
pause(kind) ==
  /\ continueFn' = "set"
  /\ gateResolved' = FALSE
  /\ onPauseCount' = onPauseCount + 1
  /\ pauseKind' = kind
  /\ pc' = "paused"

\* run(), up to the point where config.fn has been invoked and the chain
\* Promise.resolve(promiseOrValue).then(resolve).catch(...) is set up.  A
\* synchronous throw of fn becomes a rejected promise, so it settles like
\* an asynchronous rejection.
run ==
  IF isResolved
  THEN /\ pc' = "done"
       /\ fnCalls' = fnCalls
  ELSE /\ fnCalls < MaxAttempts
       /\ fnCalls' = fnCalls + 1
       /\ pc' = "inflight"

\* The synchronous body of createRetryer: the "Start loop" block.
createRetryer ==
  /\ pc = "new"
  /\ IF canFetch(networkMode)
     THEN /\ run
          /\ UNCHANGED <<continueFn, gateResolved, onPauseCount, pauseKind>>
     ELSE /\ pause("start")
          /\ fnCalls' = fnCalls
  /\ UNCHANGED notRetryer
  /\ UNCHANGED continueReturn
  /\ UNCHANGED <<retryerCfg, retryerEnv, isRetryCancelled, failureCount,
                 isResolved, promise, attemptResult, error, onSuccessLog,
                 onErrorLog, onFailLog, onContinueCount, abortCount>>

\* The promise of the in-flight attempt settles (fn's promise fulfils or
\* rejects, or fn returned / threw synchronously).  The reaction of the
\* .then / .catch chain runs in a later microtask: other code can run
\* between the two.
AttemptSettles(ok) ==
  /\ pc = "inflight"
  /\ attemptResult' = IF ok THEN Data(fnCalls) ELSE Failure(fnCalls)
  /\ pc' = "settled"
  /\ UNCHANGED notRetryer
  /\ UNCHANGED continueReturn
  /\ UNCHANGED <<retryerCfg, retryerEnv, isRetryCancelled, failureCount,
                 isResolved, continueFn, promise, pauseKind, gateResolved,
                 error, fnCalls, onSuccessLog, onErrorLog, onFailLog,
                 onPauseCount, onContinueCount, abortCount>>

\* .then(resolve) for a fulfilled attempt.
OnFulfilled ==
  /\ pc = "settled"
  /\ attemptResult.kind = "data"
  /\ resolve(attemptResult)
  /\ pc' = "done"
  /\ UNCHANGED notRetryer
  /\ UNCHANGED continueReturn
  /\ UNCHANGED <<retryerCfg, retryerEnv, isRetryCancelled, failureCount,
                 continueFn, pauseKind, attemptResult, error, fnCalls,
                 onFailLog, onPauseCount, onContinueCount, abortCount>>

\* The retry count in force: config.retry ?? (isServer ? 0 : 3)
effectiveRetry ==
  IF retry.kind = "undefined"
  THEN [kind |-> "number",
        n |-> IF isServer THEN DefaultRetryServer ELSE DefaultRetryClient]
  ELSE retry

shouldRetry_offByOne(fnAnswer) ==
  \/ effectiveRetry.kind = "true"
  \/ (effectiveRetry.kind = "number" /\ failureCount <= effectiveRetry.n)
  \/ (effectiveRetry.kind = "function" /\ fnAnswer)

shouldRetry_always(fnAnswer) == TRUE

\* shouldRetry; `fnAnswer` is what a retry predicate returns when asked.
shouldRetry(fnAnswer) ==
  \/ effectiveRetry.kind = "true"
  \/ (effectiveRetry.kind = "number" /\ failureCount < effectiveRetry.n)
  \/ (effectiveRetry.kind = "function" /\ fnAnswer)

OnRejected_countFirst(fnAnswer) ==
  /\ pc = "settled"
  /\ attemptResult.kind = "error"
  /\ IF isResolved
     THEN /\ pc' = "done"
          /\ UNCHANGED <<retryerSettle, failureCount, onFailLog, error>>
     ELSE /\ failureCount' = failureCount + 1
          /\ onFailLog' = Append(onFailLog,
                                 <<failureCount + 1, attemptResult>>)
          /\ IF isRetryCancelled \/ ~shouldRetry(fnAnswer)
             THEN /\ reject(attemptResult)
                  /\ pc' = "done"
                  /\ UNCHANGED error
             ELSE /\ error' = attemptResult
                  /\ pc' = "delay"
                  /\ UNCHANGED retryerSettle
  /\ UNCHANGED notRetryer
  /\ UNCHANGED continueReturn
  /\ UNCHANGED <<retryerCfg, retryerEnv, isRetryCancelled, continueFn,
                 pauseKind, attemptResult, fnCalls, onPauseCount,
                 onContinueCount, abortCount>>

\* .catch((error) => ...) for a rejected attempt, up to sleep(delay).
OnRejected(fnAnswer) ==
  /\ pc = "settled"
  /\ attemptResult.kind = "error"
  /\ IF isResolved
     THEN /\ pc' = "done"
          /\ UNCHANGED <<retryerSettle, failureCount, onFailLog, error>>
     ELSE IF isRetryCancelled \/ ~shouldRetry(fnAnswer)
          THEN /\ reject(attemptResult)
               /\ pc' = "done"
               /\ UNCHANGED <<failureCount, onFailLog, error>>
          ELSE /\ failureCount' = failureCount + 1
               /\ onFailLog' = Append(onFailLog,
                                      <<failureCount + 1, attemptResult>>)
               /\ error' = attemptResult
               /\ pc' = "delay"
               /\ UNCHANGED retryerSettle
  /\ UNCHANGED notRetryer
  /\ UNCHANGED continueReturn
  /\ UNCHANGED <<retryerCfg, retryerEnv, isRetryCancelled, continueFn,
                 pauseKind, attemptResult, fnCalls, onPauseCount,
                 onContinueCount, abortCount>>

\* sleep(delay) is over: the first .then after it.
DelayExpires ==
  /\ pc = "delay"
  /\ IF shouldPause
     THEN pause("retry")
     ELSE /\ pc' = "decide"
          /\ UNCHANGED <<continueFn, gateResolved, onPauseCount, pauseKind>>
  /\ UNCHANGED notRetryer
  /\ UNCHANGED continueReturn
  /\ UNCHANGED <<retryerCfg, retryerEnv, isRetryCancelled, failureCount,
                 isResolved, promise, attemptResult, error, fnCalls,
                 onSuccessLog, onErrorLog, onFailLog, onContinueCount,
                 abortCount>>

PauseThen_alwaysContinue ==
  /\ pc = "paused"
  /\ gateResolved
  /\ continueFn' = "undefined"
  /\ onContinueCount' = onContinueCount + 1
  /\ pc' = IF pauseKind = "start" THEN "startRun" ELSE "decide"
  /\ UNCHANGED notRetryer
  /\ UNCHANGED continueReturn
  /\ UNCHANGED <<retryerCfg, retryerEnv, isRetryCancelled, failureCount,
                 isResolved, promise, pauseKind, gateResolved, attemptResult,
                 error, fnCalls, onSuccessLog, onErrorLog, onFailLog,
                 onPauseCount, abortCount>>

\* The .then of pause(), once the pause promise has been resolved.
PauseThen ==
  /\ pc = "paused"
  /\ gateResolved
  /\ continueFn' = "undefined"
  /\ onContinueCount' = IF ~isResolved THEN onContinueCount + 1
                        ELSE onContinueCount
  /\ pc' = IF pauseKind = "start" THEN "startRun" ELSE "decide"
  /\ UNCHANGED notRetryer
  /\ UNCHANGED continueReturn
  /\ UNCHANGED <<retryerCfg, retryerEnv, isRetryCancelled, failureCount,
                 isResolved, promise, pauseKind, gateResolved, attemptResult,
                 error, fnCalls, onSuccessLog, onErrorLog, onFailLog,
                 onPauseCount, abortCount>>

\* pause().then(run) of the "Start loop" block.
StartRun ==
  /\ pc = "startRun"
  /\ run
  /\ UNCHANGED notRetryer
  /\ UNCHANGED continueReturn
  /\ UNCHANGED <<retryerCfg, retryerEnv, isRetryCancelled, failureCount,
                 isResolved, continueFn, promise, pauseKind, gateResolved,
                 attemptResult, error, onSuccessLog, onErrorLog, onFailLog,
                 onPauseCount, onContinueCount, abortCount>>

Decide_ignoreFlag ==
  /\ pc = "decide"
  /\ run
  /\ UNCHANGED retryerSettle
  /\ UNCHANGED notRetryer
  /\ UNCHANGED continueReturn
  /\ UNCHANGED <<retryerCfg, retryerEnv, isRetryCancelled, failureCount,
                 continueFn, pauseKind, attemptResult, error, onFailLog,
                 onPauseCount, onContinueCount, abortCount>>

\* The last .then of the retry branch: reject(error) or run().
Decide ==
  /\ pc = "decide"
  /\ IF isRetryCancelled
     THEN /\ reject(error)
          /\ pc' = "done"
          /\ fnCalls' = fnCalls
     ELSE /\ run
          /\ UNCHANGED retryerSettle
  /\ UNCHANGED notRetryer
  /\ UNCHANGED continueReturn
  /\ UNCHANGED <<retryerCfg, retryerEnv, isRetryCancelled, failureCount,
                 continueFn, pauseKind, attemptResult, error, onFailLog,
                 onPauseCount, onContinueCount, abortCount>>

cancel_abortAlways(cancelOptions) ==
  /\ pc # "new"
  /\ reject(CancelledError(cancelOptions))
  /\ abortCount' = abortCount + 1
  /\ UNCHANGED notRetryer
  /\ UNCHANGED continueReturn
  /\ UNCHANGED <<retryerCfg, retryerEnv, isRetryCancelled, failureCount,
                 continueFn, pc, pauseKind, attemptResult, error, fnCalls,
                 onFailLog, onPauseCount, onContinueCount>>

cancel(cancelOptions) ==
  /\ pc # "new"
  /\ IF ~isResolved
     THEN /\ reject(CancelledError(cancelOptions))
          /\ abortCount' = abortCount + 1
     ELSE UNCHANGED <<retryerSettle, abortCount>>
  /\ UNCHANGED notRetryer
  /\ UNCHANGED continueReturn
  /\ UNCHANGED <<retryerCfg, retryerEnv, isRetryCancelled, failureCount,
                 continueFn, pc, pauseKind, attemptResult, error, fnCalls,
                 onFailLog, onPauseCount, onContinueCount>>

cancelRetry ==
  /\ pc # "new"
  /\ isRetryCancelled' = TRUE
  /\ UNCHANGED notRetryer
  /\ UNCHANGED continueReturn
  /\ UNCHANGED <<retryerCfg, retryerEnv, failureCount, isResolved, continueFn,
                 promise, pc, pauseKind, gateResolved, attemptResult, error,
                 fnCalls, onSuccessLog, onErrorLog, onFailLog, onPauseCount,
                 onContinueCount, abortCount>>

continueRetry ==
  /\ pc # "new"
  /\ isRetryCancelled' = FALSE
  /\ UNCHANGED notRetryer
  /\ UNCHANGED continueReturn
  /\ UNCHANGED <<retryerCfg, retryerEnv, failureCount, isResolved, continueFn,
                 promise, pc, pauseKind, gateResolved, attemptResult, error,
                 fnCalls, onSuccessLog, onErrorLog, onFailLog, onPauseCount,
                 onContinueCount, abortCount>>

\* continueFn(): canContinue = isResolved || !shouldPause()
canContinue == isResolved \/ ~shouldPause

continue_force ==
  /\ pc # "new"
  /\ gateResolved' = IF continueFn = "set" THEN TRUE ELSE gateResolved
  /\ continueReturn' = IF continueFn = "set" THEN "promise" ELSE "resolved"
  /\ UNCHANGED notRetryer
  /\ UNCHANGED <<retryerCfg, retryerEnv, isRetryCancelled, failureCount,
                 isResolved, continueFn, promise, pc, pauseKind,
                 attemptResult, error, fnCalls, onSuccessLog, onErrorLog,
                 onFailLog, onPauseCount, onContinueCount, abortCount>>

\* The `continue` method of the returned handle.
continue ==
  /\ pc # "new"
  /\ gateResolved' = IF continueFn = "set" /\ canContinue THEN TRUE
                     ELSE gateResolved
  /\ continueReturn' = IF continueFn = "set" /\ canContinue THEN "promise"
                       ELSE "resolved"
  /\ UNCHANGED notRetryer
  /\ UNCHANGED <<retryerCfg, retryerEnv, isRetryCancelled, failureCount,
                 isResolved, continueFn, promise, pc, pauseKind,
                 attemptResult, error, fnCalls, onSuccessLog, onErrorLog,
                 onFailLog, onPauseCount, onContinueCount, abortCount>>

\* The external signals change.
SetOnline(b) ==
  /\ online # b
  /\ online' = b
  /\ UNCHANGED notRetryer
  /\ UNCHANGED continueReturn
  /\ UNCHANGED <<retryerCfg, focused, isRetryCancelled, failureCount,
                 isResolved, continueFn, promise, pc, pauseKind, gateResolved,
                 attemptResult, error, fnCalls, onSuccessLog, onErrorLog,
                 onFailLog, onPauseCount, onContinueCount, abortCount>>

SetFocused(b) ==
  /\ focused # b
  /\ focused' = b
  /\ UNCHANGED notRetryer
  /\ UNCHANGED continueReturn
  /\ UNCHANGED <<retryerCfg, online, isRetryCancelled, failureCount,
                 isResolved, continueFn, promise, pc, pauseKind, gateResolved,
                 attemptResult, error, fnCalls, onSuccessLog, onErrorLog,
                 onFailLog, onPauseCount, onContinueCount, abortCount>>

\* The state on entry to createRetryer: the `let` declarations and the
\* pending promise.
RetryerState0 ==
  /\ isRetryCancelled = FALSE
  /\ failureCount = 0
  /\ isResolved = FALSE
  /\ continueFn = "undefined"
  /\ promise = [status |-> "pending", value |-> NoValue]
  /\ pc = "new"
  /\ pauseKind = "start"
  /\ gateResolved = FALSE
  /\ attemptResult = NoValue
  /\ error = NoValue
  /\ fnCalls = 0
  /\ onSuccessLog = <<>>
  /\ onErrorLog = <<>>
  /\ onFailLog = <<>>
  /\ onPauseCount = 0
  /\ onContinueCount = 0
  /\ abortCount = 0
  /\ continueReturn = "none"

\* Every config and every state of the signals.  isServer is read only
\* where config.retry is undefined (config.retry ?? (isServer ? 0 : 3)), so
\* both of its values are explored there and one elsewhere.
RetryerInit ==
  /\ networkMode \in NetworkModes
  /\ retry \in RetryValues
  /\ isServer \in (IF retry.kind = "undefined" THEN BOOLEAN ELSE {FALSE})
  /\ online \in BOOLEAN
  /\ focused \in BOOLEAN
  /\ RetryerState0

\* The retry executor while another component is explored: not constructed.
RetryerParked ==
  /\ networkMode = "undefined"
  /\ retry = [kind |-> "undefined", n |-> 0]
  /\ online = TRUE
  /\ focused = TRUE
  /\ RetryerState0

RetryerNext ==
  \/ createRetryer
  \/ \E ok \in BOOLEAN : AttemptSettles(ok)
  \/ OnFulfilled
  \/ \E fnAnswer \in BOOLEAN : OnRejected(fnAnswer)
  \/ DelayExpires
  \/ PauseThen
  \/ StartRun
  \/ Decide
  \/ \E o \in CancelOptions : cancel(o)
  \/ cancelRetry
  \/ continueRetry
  \/ continue
  \/ \E b \in BOOLEAN : SetOnline(b)
  \/ \E b \in BOOLEAN : SetFocused(b)

\* The retry executor when the caller never calls cancel() or cancelRetry().
RetryerNextNoCancel ==
  \/ createRetryer
  \/ \E ok \in BOOLEAN : AttemptSettles(ok)
  \/ OnFulfilled
  \/ \E fnAnswer \in BOOLEAN : OnRejected(fnAnswer)
  \/ DelayExpires
  \/ PauseThen
  \/ StartRun
  \/ Decide
  \/ continue
  \/ \E b \in BOOLEAN : SetOnline(b)
  \/ \E b \in BOOLEAN : SetFocused(b)


\* ================================================================ Removable

\* Most scheduleGc calls explored on one instance.
MaxSchedules == 2

\* Most updateGcTime calls explored on one instance.
MaxUpdates == 3

\* Largest finite gcTime passed to updateGcTime (besides the default).
MaxGcTime == 1

\* A JavaScript value held in gcTime or passed to updateGcTime: undefined, a
\* finite number, Infinity or NaN.
Undefined == [k |-> "undefined", v |-> 0]
Num(n) == [k |-> "number", v |-> n]
Infinity == [k |-> "Infinity", v |-> 0]
NaN == [k |-> "NaN", v |-> 0]

\* 5 * 60 * 1000, the default of updateGcTime off the server.
DefaultGcTime == 5 * 60 * 1000

\* What updateGcTime is called with: nothing, a negative number, 0, small
\* positive numbers, Infinity, NaN.
GcTimeInputs ==
  {Undefined, Infinity, NaN} \cup {Num(n) : n \in (0 - 1) .. MaxGcTime}

\* Math.max(a, b) of two numbers (NaN if either is NaN).
MathMax(a, b) ==
  IF a.k = "NaN" \/ b.k = "NaN" THEN NaN
  ELSE IF a.k = "Infinity" \/ b.k = "Infinity" THEN Infinity
  ELSE IF a.v >= b.v THEN a ELSE b

\* value || 0: undefined, 0 and NaN are falsy.
OrZero(value) ==
  IF value.k \in {"undefined", "NaN"} \/ value = Num(0) THEN Num(0)
  ELSE value

\* newGcTime ?? (isServer ? Infinity : 5 * 60 * 1000)
OrDefault(newGcTime) ==
  IF newGcTime.k = "undefined"
  THEN (IF isServer THEN Infinity ELSE Num(DefaultGcTime))
  ELSE newGcTime

\* utils.isValidTimeout: a finite, non-negative number.
isValidTimeout(value) == value.k = "number" /\ value.v >= 0

\* clearGcTimeout, as the values it leaves in #gcTimeout and in the host's
\* timer table: clearTimeout of a handle that already fired does nothing.
clearedTimers == IF gcTimeout # 0 THEN timers \ {gcTimeout} ELSE timers

clearGcTimeout ==
  /\ gcTimeout' = 0
  /\ timers' = clearedTimers
  /\ UNCHANGED <<gcTime, issued, evictLog, scheduleCalls, requested,
                 destroyInfo>>
  /\ UNCHANGED notRemovable

destroy_noClear ==
  /\ destroyInfo' = [called |-> TRUE, issued |-> issued,
                     evicts |-> Len(evictLog)]
  /\ UNCHANGED <<gcTimeout, timers, gcTime, issued, evictLog, scheduleCalls,
                 requested>>
  /\ UNCHANGED notRemovable

destroy ==
  /\ gcTimeout' = 0
  /\ timers' = clearedTimers
  /\ destroyInfo' = [called |-> TRUE, issued |-> issued,
                     evicts |-> Len(evictLog)]
  /\ UNCHANGED <<gcTime, issued, evictLog, scheduleCalls, requested>>
  /\ UNCHANGED notRemovable

scheduleGc_noClear ==
  /\ scheduleCalls < MaxSchedules
  /\ scheduleCalls' = scheduleCalls + 1
  /\ IF isValidTimeout(gcTime)
     THEN /\ issued' = issued + 1
          /\ gcTimeout' = issued + 1
          /\ timers' = timers \cup {issued + 1}
     ELSE UNCHANGED <<issued, gcTimeout, timers>>
  /\ UNCHANGED <<gcTime, evictLog, requested, destroyInfo>>
  /\ UNCHANGED notRemovable

scheduleGc ==
  /\ scheduleCalls < MaxSchedules
  /\ scheduleCalls' = scheduleCalls + 1
  /\ IF isValidTimeout(gcTime)
     THEN /\ issued' = issued + 1
          /\ gcTimeout' = issued + 1
          /\ timers' = clearedTimers \cup {issued + 1}
     ELSE /\ issued' = issued
          /\ gcTimeout' = 0
          /\ timers' = clearedTimers
  /\ UNCHANGED <<gcTime, evictLog, requested, destroyInfo>>
  /\ UNCHANGED notRemovable

updateGcTime_overwrite(newGcTime) ==
  /\ Len(requested) < MaxUpdates
  /\ gcTime' = OrDefault(newGcTime)
  /\ requested' = Append(requested, OrDefault(newGcTime))
  /\ UNCHANGED <<gcTimeout, timers, issued, evictLog, scheduleCalls,
                 destroyInfo>>
  /\ UNCHANGED notRemovable

updateGcTime(newGcTime) ==
  /\ Len(requested) < MaxUpdates
  /\ gcTime' = MathMax(OrZero(gcTime), OrDefault(newGcTime))
  /\ requested' = Append(requested, OrDefault(newGcTime))
  /\ UNCHANGED <<gcTimeout, timers, issued, evictLog, scheduleCalls,
                 destroyInfo>>
  /\ UNCHANGED notRemovable

\* A live timer armed by scheduleGc fires: its callback calls
\* this.optionalRemove().  #gcTimeout keeps the handle.
TimerFires(handle) ==
  /\ handle \in timers
  /\ timers' = timers \ {handle}
  /\ evictLog' = Append(evictLog, <<handle, issued>>)
  /\ UNCHANGED <<gcTime, gcTimeout, issued, scheduleCalls, requested,
                 destroyInfo>>
  /\ UNCHANGED notRemovable

\* A new instance: gcTime is declared without a value, no timer is armed.
RemovableState0 ==
  /\ gcTime = Undefined
  /\ gcTimeout = 0
  /\ timers = {}
  /\ issued = 0
  /\ evictLog = <<>>
  /\ scheduleCalls = 0
  /\ requested = <<>>
  /\ destroyInfo = [called |-> FALSE, issued |-> 0, evicts |-> 0]

RemovableNext ==
  \/ destroy
  \/ scheduleGc
  \/ \E v \in GcTimeInputs : updateGcTime(v)
  \/ clearGcTimeout
  \/ \E h \in 1 .. MaxSchedules : TimerFires(h)

\* ============================================================= Subscribable

\* Number of distinct listener references.
NumListeners == 2

\* Most subscribe and unsubscribe calls explored on one registry.
MaxSubOps == 5

Listeners == 1 .. NumListeners

\* The hooks are invoked on every call; they are empty here and overridden
\* by subclasses.
subscribe_hookOnFirst(listener) ==
  /\ Len(subLog) < MaxSubOps
  /\ listeners' = listeners \cup {listener}
  /\ handles' = Append(handles, listener)
  /\ subLog' = Append(subLog,
       [op |-> "subscribe", handle |-> Len(handles) + 1,
        before |-> listeners, after |-> listeners \cup {listener},
        hook |-> IF listeners = {} THEN "onSubscribe" ELSE "none"])
  /\ UNCHANGED notSubscribable

subscribe(listener) ==
  /\ Len(subLog) < MaxSubOps
  /\ listeners' = listeners \cup {listener}
  /\ handles' = Append(handles, listener)
  /\ subLog' = Append(subLog,
       [op |-> "subscribe", handle |-> Len(handles) + 1,
        before |-> listeners, after |-> listeners \cup {listener},
        hook |-> "onSubscribe"])
  /\ UNCHANGED notSubscribable

unsubscribe_keep(h) ==
  /\ Len(subLog) < MaxSubOps
  /\ h \in 1 .. Len(handles)
  /\ listeners' = listeners
  /\ subLog' = Append(subLog,
       [op |-> "unsubscribe", handle |-> h,
        before |-> listeners, after |-> listeners,
        hook |-> "onUnsubscribe"])
  /\ UNCHANGED handles
  /\ UNCHANGED notSubscribable

unsubscribe_counted(h) ==
  /\ Len(subLog) < MaxSubOps
  /\ h \in 1 .. Len(handles)
  /\ LET others == {g \in 1 .. Len(handles) :
                      /\ g # h
                      /\ handles[g] = handles[h]
                      /\ \A i \in 1 .. Len(subLog) :
                           ~(subLog[i].op = "unsubscribe"
                               /\ subLog[i].handle = g)}
         after == IF others = {} THEN listeners \ {handles[h]}
                  ELSE listeners
     IN /\ listeners' = after
        /\ subLog' = Append(subLog,
             [op |-> "unsubscribe", handle |-> h,
              before |-> listeners, after |-> after,
              hook |-> "onUnsubscribe"])
  /\ UNCHANGED handles
  /\ UNCHANGED notSubscribable

\* The closure subscribe returned as its h-th result is invoked.
unsubscribe(h) ==
  /\ Len(subLog) < MaxSubOps
  /\ h \in 1 .. Len(handles)
  /\ listeners' = listeners \ {handles[h]}
  /\ subLog' = Append(subLog,
       [op |-> "unsubscribe", handle |-> h,
        before |-> listeners, after |-> listeners \ {handles[h]},
        hook |-> "onUnsubscribe"])
  /\ UNCHANGED handles
  /\ UNCHANGED notSubscribable

hasListeners == Cardinality(listeners) > 0

\* After the constructor.
SubscribableState0 ==
  /\ listeners = {}
  /\ handles = <<>>
  /\ subLog = <<>>

SubscribableNext ==
  \/ \E l \in Listeners : subscribe(l)
  \/ \E h \in 1 .. MaxSubOps : unsubscribe(h)

\* ====================================================== createNotifyManager
\* With the default notifyFn and batchNotifyFn (call the callback) and the
\* default scheduleFn (setTimeout(cb, 0)): the closures handed to scheduleFn
\* run later, one at a time, first in first out, each when the call stack
\* is empty.

\* Most schedule() calls explored.
MaxCallbacks == 3

\* Most batch() calls explored.
MaxBatchCalls == 2

\* scheduleFn(closure): the closure joins the host's timer queue.  `kind` is
\* "single" for schedule's closure and "pass" for flush's; `cbs` are the
\* callbacks it will invoke.  `batch` and `depth` note the outermost batch
\* and the value of `transactions` at the call.
scheduleFn(kind, cbs, depth) ==
  /\ dispatched' = Append(dispatched,
       [kind |-> kind, cbs |-> cbs, batch |-> batchSeq, depth |-> depth])
  /\ tasks' = Append(tasks, Len(dispatched) + 1)

flush_keepQueue(depth) ==
  /\ queue' = queue
  /\ IF Len(queue) > 0
     THEN scheduleFn("pass", queue, depth)
     ELSE UNCHANGED <<dispatched, tasks>>

\* flush(), called when `transactions` has the value `depth`.
flush(depth) ==
  /\ queue' = <<>>
  /\ IF Len(queue) > 0
     THEN scheduleFn("pass", queue, depth)
     ELSE UNCHANGED <<dispatched, tasks>>

\* The finally block of batch.
batchFinally_flushAlways ==
  /\ transactions' = transactions - 1
  /\ flush(transactions - 1)

batchFinally_skip ==
  /\ transactions' = transactions
  /\ UNCHANGED <<queue, dispatched, tasks>>

batchFinally ==
  /\ transactions' = transactions - 1
  /\ IF transactions - 1 = 0
     THEN flush(transactions - 1)
     ELSE UNCHANGED <<queue, dispatched, tasks>>

\* The finally block of batch when callback() threw.
batchFinallyOnThrow == batchFinally

\* batch(callback) is entered: transactions++, then callback() starts.
batchEnter ==
  /\ ctx # "idle"
  /\ ~throwing
  /\ batchCalls < MaxBatchCalls
  /\ batchCalls' = batchCalls + 1
  /\ transactions' = transactions + 1
  /\ batchSeq' = IF transactions = 0 THEN batchSeq + 1 ELSE batchSeq
  /\ UNCHANGED <<queue, tasks, dispatched, ctx, current, idx, throwing,
                 scheduled, delivered, aborted>>
  /\ UNCHANGED notNotify

\* callback() of the innermost batch returns: finally, then return result.
batchReturn ==
  /\ ctx # "idle"
  /\ ~throwing
  /\ transactions > 0
  /\ batchFinally
  /\ UNCHANGED <<ctx, current, idx, throwing, scheduled, delivered, batchSeq,
                 batchCalls, aborted>>
  /\ UNCHANGED notNotify

\* callback() of the innermost batch throws, or lets an exception thrown
\* further in pass through: finally, then the exception goes on to the
\* caller of batch.
batchThrow ==
  /\ ctx # "idle"
  /\ transactions > 0
  /\ batchFinallyOnThrow
  /\ throwing' = TRUE
  /\ UNCHANGED <<ctx, current, idx, scheduled, delivered, batchSeq,
                 batchCalls, aborted>>
  /\ UNCHANGED notNotify

\* The code between two batch frames (or around the outermost one) catches
\* the exception.
Catch ==
  /\ ctx # "idle"
  /\ throwing
  /\ throwing' = FALSE
  /\ UNCHANGED <<queue, transactions, tasks, dispatched, ctx, current, idx,
                 scheduled, delivered, batchSeq, batchCalls, aborted>>
  /\ UNCHANGED notNotify

schedule_joinPass ==
  /\ ctx # "idle"
  /\ ~throwing
  /\ Len(scheduled) < MaxCallbacks
  /\ scheduled' = Append(scheduled,
       [depth |-> transactions,
        batch |-> IF transactions > 0 THEN batchSeq ELSE 0,
        during |-> current])
  /\ IF ctx = "task"
     THEN /\ dispatched' = [dispatched EXCEPT
                              ![current].cbs = Append(@, Len(scheduled) + 1)]
          /\ UNCHANGED <<queue, tasks>>
     ELSE IF transactions > 0
          THEN /\ queue' = Append(queue, Len(scheduled) + 1)
               /\ UNCHANGED <<dispatched, tasks>>
          ELSE /\ scheduleFn("single", <<Len(scheduled) + 1>>, transactions)
               /\ queue' = queue
  /\ UNCHANGED <<transactions, ctx, current, idx, throwing, delivered,
                 batchSeq, batchCalls, aborted>>
  /\ UNCHANGED notNotify

\* schedule(callback), with a callback not seen before.  `during` notes the
\* closure of scheduleFn that was running at the call (0: none).
schedule ==
  /\ ctx # "idle"
  /\ ~throwing
  /\ Len(scheduled) < MaxCallbacks
  /\ scheduled' = Append(scheduled,
       [depth |-> transactions,
        batch |-> IF transactions > 0 THEN batchSeq ELSE 0,
        during |-> current])
  /\ IF transactions > 0
     THEN /\ queue' = Append(queue, Len(scheduled) + 1)
          /\ UNCHANGED <<dispatched, tasks>>
     ELSE /\ scheduleFn("single", <<Len(scheduled) + 1>>, transactions)
          /\ queue' = queue
  /\ UNCHANGED <<transactions, ctx, current, idx, throwing, delivered,
                 batchSeq, batchCalls, aborted>>
  /\ UNCHANGED notNotify

\* Code outside the notify manager (an event handler, a promise reaction)
\* starts running on an empty call stack; it may call schedule and batch.
UserBegin ==
  /\ ctx = "idle"
  /\ ctx' = "user"
  /\ UNCHANGED <<queue, transactions, tasks, dispatched, current, idx,
                 throwing, scheduled, delivered, batchSeq, batchCalls,
                 aborted>>
  /\ UNCHANGED notNotify

\* That code returns, or ends on an exception nobody caught.
UserEnd ==
  /\ ctx = "user"
  /\ transactions = 0
  /\ ctx' = "idle"
  /\ throwing' = FALSE
  /\ UNCHANGED <<queue, transactions, tasks, dispatched, current, idx,
                 scheduled, delivered, batchSeq, batchCalls, aborted>>
  /\ UNCHANGED notNotify

\* The host runs the next closure of its timer queue: notifyFn(callback)
\* for schedule's closure, batchNotifyFn(() => originalQueue.forEach(...))
\* for flush's.  The first callback is invoked.
RunTask ==
  /\ ctx = "idle"
  /\ Len(tasks) > 0
  /\ tasks' = Tail(tasks)
  /\ current' = Head(tasks)
  /\ idx' = 1
  /\ ctx' = "task"
  /\ delivered' = Append(delivered,
                         <<dispatched[Head(tasks)].cbs[1], Head(tasks)>>)
  /\ UNCHANGED <<queue, transactions, dispatched, throwing, scheduled,
                 batchSeq, batchCalls, aborted>>
  /\ UNCHANGED notNotify

\* The callback being invoked returns: forEach invokes the next one, or
\* the closure is done.
CallbackReturns ==
  /\ ctx = "task"
  /\ transactions = 0
  /\ ~throwing
  /\ IF idx < Len(dispatched[current].cbs)
     THEN /\ idx' = idx + 1
          /\ delivered' = Append(delivered,
               <<dispatched[current].cbs[idx + 1], current>>)
          /\ UNCHANGED <<ctx, current>>
     ELSE /\ idx' = 0
          /\ current' = 0
          /\ ctx' = "idle"
          /\ delivered' = delivered
  /\ UNCHANGED <<queue, transactions, tasks, dispatched, throwing, scheduled,
                 batchSeq, batchCalls, aborted>>
  /\ UNCHANGED notNotify

\* The callback being invoked throws (or lets an exception through):
\* nothing between it and the host catches, so forEach stops and the
\* closure ends.
CallbackThrows ==
  /\ ctx = "task"
  /\ transactions = 0
  /\ aborted' = aborted \cup {current}
  /\ idx' = 0
  /\ current' = 0
  /\ ctx' = "idle"
  /\ throwing' = FALSE
  /\ UNCHANGED <<queue, transactions, tasks, dispatched, scheduled, delivered,
                 batchSeq, batchCalls>>
  /\ UNCHANGED notNotify

\* After createNotifyManager(), nothing running.
NotifyState0 ==
  /\ queue = <<>>
  /\ transactions = 0
  /\ tasks = <<>>
  /\ dispatched = <<>>
  /\ ctx = "idle"
  /\ current = 0
  /\ idx = 0
  /\ throwing = FALSE
  /\ scheduled = <<>>
  /\ delivered = <<>>
  /\ batchSeq = 0
  /\ batchCalls = 0
  /\ aborted = {}

NotifyNext ==
  \/ batchEnter
  \/ batchReturn
  \/ batchThrow
  \/ Catch
  \/ schedule
  \/ UserBegin
  \/ UserEnd
  \/ RunTask
  \/ CallbackReturns
  \/ CallbackThrows

\* =========================================================== specifications

InitRetryer ==
  /\ RetryerInit
  /\ RemovableState0 /\ SubscribableState0 /\ NotifyState0

InitRemovable ==
  /\ isServer \in BOOLEAN
  /\ RetryerParked
  /\ RemovableState0 /\ SubscribableState0 /\ NotifyState0

InitSubscribable ==
  /\ isServer = FALSE
  /\ RetryerParked
  /\ RemovableState0 /\ SubscribableState0 /\ NotifyState0

InitNotify ==
  /\ isServer = FALSE
  /\ RetryerParked
  /\ RemovableState0 /\ SubscribableState0 /\ NotifyState0

SpecRetryer == InitRetryer /\ [][RetryerNext]_vars

SpecRetryerNoCancel == InitRetryer /\ [][RetryerNextNoCancel]_vars

\* The executor with a numeric retry policy.
InitRetryerNumeric ==
  /\ InitRetryer
  /\ retry.kind = "number"

\* What the host guarantees of the loop: the synchronous body of
\* createRetryer runs to its end, every attempt of fn settles, every promise
\* reaction that is due runs (the microtask queue is drained), and the
\* timer of sleep(delay) fires.  Nothing is assumed of the callers of
\* cancel, cancelRetry, continueRetry and continue, nor of the signals.
RetryerFairness ==
  /\ WF_vars(createRetryer)
  /\ WF_vars(\E ok \in BOOLEAN : AttemptSettles(ok))
  /\ WF_vars(OnFulfilled)
  /\ WF_vars(\E fnAnswer \in BOOLEAN : OnRejected(fnAnswer))
  /\ WF_vars(DelayExpires)
  /\ WF_vars(PauseThen)
  /\ WF_vars(StartRun)
  /\ WF_vars(Decide)

SpecRetryerLive ==
  InitRetryerNumeric /\ [][RetryerNext]_vars /\ RetryerFairness

SpecRemovable == InitRemovable /\ [][RemovableNext]_vars

SpecSubscribable == InitSubscribable /\ [][SubscribableNext]_vars

SpecNotify == InitNotify /\ [][NotifyNext]_vars

\* ------------------------------------------------------- claims: retryer

\* C1: over every interleaving, onSuccess and onError together fire at most
\* once and never both; they have fired exactly when the executor is
\* resolved, and the returned promise is settled with the very value passed
\* to the one callback that fired (fulfilled for onSuccess, rejected for
\* onError).
C1_TerminalCallbackOnce ==
  /\ Len(onSuccessLog) + Len(onErrorLog) <= 1
  /\ isResolved <=> (Len(onSuccessLog) + Len(onErrorLog) = 1)
  /\ promise.status = "pending" <=> (onSuccessLog = <<>> /\ onErrorLog = <<>>)
  /\ promise.status = "fulfilled" <=> onSuccessLog = <<promise.value>>
  /\ promise.status = "rejected" <=> onErrorLog = <<promise.value>>

\* C1 witness: cancel() raced with a retry: after at least one retry the
\* handle was cancelled while an attempt was in flight, and that attempt then
\* succeeded and its .then(resolve) has run.
C1_Witness ==
  /\ failureCount >= 1
  /\ promise.status = "rejected"
  /\ isCancelledError(promise.value)
  /\ attemptResult.kind = "data"
  /\ pc = "done"

\* C3: a cancel(options) step taken before terminal resolution, in any
\* position of the loop and whatever the online and focus signals say,
\* leaves the executor resolved, the promise rejected with
\* CancelledError(options), onError called once with that error, abort called
\* exactly once more, and a pending pause promise released; a cancel step
\* taken after terminal resolution calls neither onError nor abort and leaves
\* the outcome as it was.  So abort is called at most once in all, and
\* exactly when the promise is rejected as cancelled.
C3_CancelImmediate ==
  /\ [](/\ abortCount <= 1
        /\ abortCount = 1 <=>
             (promise.status = "rejected" /\ isCancelledError(promise.value)))
  /\ [][\A o \in CancelOptions :
         cancel(o) =>
           IF ~isResolved
           THEN /\ isResolved'
                /\ promise' = [status |-> "rejected",
                               value |-> CancelledError(o)]
                /\ onErrorLog' = <<CancelledError(o)>>
                /\ onSuccessLog' = <<>>
                /\ abortCount' = abortCount + 1
                /\ (continueFn = "set" => gateResolved')
           ELSE UNCHANGED <<promise, onErrorLog, onSuccessLog, abortCount,
                            isResolved>>]_vars

\* C3 witness: cancelled while suspended on the pause gate and still
\* offline: the promise is already rejected as cancelled, abort ran once,
\* and onContinue was not called.
C3_Witness ==
  /\ pc = "paused"
  /\ ~online
  /\ networkMode # "always"
  /\ promise.status = "rejected"
  /\ promise.value = CancelledError([revert |-> "true", silent |-> "undefined"])
  /\ abortCount = 1
  /\ onContinueCount = 0
  /\ gateResolved

\* C4: with retry = N (a number), or retry = false read as N = 0, and no
\* cancel / cancelRetry call: fn is never invoked more than N + 1 times and
\* onFail never more than N times; when the promise is rejected, fn was
\* invoked exactly N + 1 times, onFail exactly N times, and the rejection
\* carries the error of the last attempt.
C4_RetryCount ==
  retry.kind \in {"number", "false"} =>
    LET N == IF retry.kind = "false" THEN 0 ELSE retry.n IN
      /\ fnCalls <= N + 1
      /\ Len(onFailLog) <= N
      /\ promise.status = "rejected" =>
           /\ fnCalls = N + 1
           /\ Len(onFailLog) = N
           /\ failureCount = N
           /\ promise.value = Failure(fnCalls)

\* C4 witness: retry = MaxRetry, every attempt failed, the promise is
\* rejected after MaxRetry + 1 invocations.
C4_Witness ==
  /\ retry = [kind |-> "number", n |-> MaxRetry]
  /\ promise.status = "rejected"
  /\ fnCalls = MaxRetry + 1
  /\ Len(onFailLog) = MaxRetry

\* C4 witness for retry = false: rejected after the first attempt.
C4_WitnessFalse ==
  /\ retry.kind = "false"
  /\ promise.status = "rejected"
  /\ fnCalls = 1
  /\ onFailLog = <<>>

\* ------------------------------------------------ claims: notify manager

\* The callbacks passed to schedule() during outermost batch b, in order.
CbsOfBatch(b) ==
  LET InB(i) == scheduled[i].batch = b
  IN SelectSeq([i \in 1 .. Len(scheduled) |-> i], InB)

\* The closures of flush that were dispatched for outermost batch b.
PassesOfBatch(b) ==
  {t \in 1 .. Len(dispatched) :
     dispatched[t].kind = "pass" /\ dispatched[t].batch = b}

\* The callbacks task t has invoked so far, in order.
DeliveredBy(t) ==
  LET ByT(e) == e[2] = t
      es == SelectSeq(delivered, ByT)
  IN [i \in 1 .. Len(es) |-> es[i][1]]

IsPrefix(a, b) ==
  /\ Len(a) <= Len(b)
  /\ \A i \in 1 .. Len(a) : a[i] = b[i]

\* Task t has run and is over.
Finished(t) == t # current /\ \A i \in 1 .. Len(tasks) : tasks[i] # t

C10_BatchExceptionSafe ==
  /\ [](ctx = "idle" => (transactions = 0 /\ queue = <<>>))
  /\ [](transactions = 0 => queue = <<>>)
  /\ [][batchThrow =>
          /\ transactions' = transactions - 1
          /\ throwing'
          /\ IF transactions' = 0
             THEN /\ queue' = <<>>
                  /\ IF queue # <<>>
                     THEN /\ Len(dispatched') = Len(dispatched) + 1
                          /\ dispatched'[Len(dispatched')].kind = "pass"
                          /\ dispatched'[Len(dispatched')].cbs = queue
                          /\ tasks' = Append(tasks, Len(dispatched'))
                     ELSE UNCHANGED <<dispatched, tasks>>
             ELSE UNCHANGED <<queue, dispatched, tasks>>]_vars

\* C10 witness: the callback of an outermost batch threw after two
\* schedule() calls: the exception is on its way to the caller of batch,
\* transactions is back at 0 and the two callbacks wait in one flush
\* closure.
C10_Witness ==
  /\ throwing
  /\ ctx = "user"
  /\ transactions = 0
  /\ queue = <<>>
  /\ Len(tasks) = 1
  /\ dispatched[tasks[1]].kind = "pass"
  /\ dispatched[tasks[1]].cbs = <<1, 2>>

\* ------------------------------------------------- claims: Subscribable

RepeatedUnsubscribe(j) ==
  /\ subLog[j].op = "unsubscribe"
  /\ \E i \in 1 .. j - 1 :
       subLog[i].op = "unsubscribe" /\ subLog[i].handle = subLog[j].handle

NotResubscribed(h, i, j) ==
  \A m \in i + 1 .. j - 1 :
    subLog[m].op = "subscribe" => handles[subLog[m].handle] # handles[h]

\* The number of entries of subLog that invoked onUnsubscribe.
OnUnsubscribeCount ==
  Cardinality({i \in 1 .. Len(subLog) : subLog[i].hook = "onUnsubscribe"})

Leq(a, b) ==
  \/ b.k = "Infinity"
  \/ (a.k = "number" /\ b.k = "number" /\ a.v <= b.v)

NoNaN(values) == \A i \in 1 .. Len(values) : values[i].k # "NaN"

\* The maximum of a non-empty sequence of numbers and Infinity.
MaxOf(values) ==
  CHOOSE m \in {values[i] : i \in 1 .. Len(values)} :
    \A i \in 1 .. Len(values) : Leq(values[i], m)

C7_WitnessKept ==
  /\ requested = <<Num(1), Num(0)>>
  /\ gcTime = Num(1)

\* C8: at most one timer is live, and it is the one #gcTimeout holds, the
\* last one armed; optionalRemove is invoked at most once per scheduleGc
\* call, each timer invokes it at most once, and only a timer that was the
\* last one armed when it fired does; after clearGcTimeout no timer is
\* live, and clearGcTimeout without a live timer changes neither the
\* timers nor gcTime nor the invocations of optionalRemove.
C8_SingleTimer ==
  /\ [](/\ Cardinality(timers) <= 1
        /\ \A h \in timers : h = gcTimeout /\ h = issued
        /\ issued <= scheduleCalls
        /\ Len(evictLog) <= scheduleCalls
        /\ \A i \in 1 .. Len(evictLog) : evictLog[i][1] = evictLog[i][2]
        /\ \A i, j \in 1 .. Len(evictLog) :
             i < j => evictLog[i][1] < evictLog[j][1])
  /\ [][clearGcTimeout =>
          /\ timers' = {}
          /\ timers = {} => UNCHANGED <<timers, gcTime, evictLog, issued>>]_vars

\* C8 witness: scheduleGc was called twice while the first timer was
\* pending; the first timer never fired and the second one did.
C8_Witness ==
  /\ scheduleCalls = 2
  /\ issued = 2
  /\ evictLog = <<<<2, 2>>>>
  /\ timers = {}

\* C9, as claimed: once destroy() has been called no timer is live, none
\* is armed any more and optionalRemove is not invoked any more.
C9_DestroyTerminal ==
  destroyInfo.called =>
    /\ timers = {}
    /\ issued = destroyInfo.issued
    /\ Len(evictLog) = destroyInfo.evicts

\* C9, amended: destroy() clears the pending timer, so a timer armed
\* before the last destroy() call is never live after it and never invokes
\* optionalRemove after it; a scheduleGc after destroy() arms a new timer
\* as usual.
C9_DestroyClearsPending ==
  destroyInfo.called =>
    /\ \A h \in timers : h > destroyInfo.issued
    /\ \A i \in destroyInfo.evicts + 1 .. Len(evictLog) :
         evictLog[i][1] > destroyInfo.issued

\* C9 witness: destroy() was called when one timer had been armed and none
\* had fired; a scheduleGc after it armed a second timer, which fired.
C9_Witness ==
  /\ destroyInfo = [called |-> TRUE, issued |-> 1, evicts |-> 0]
  /\ evictLog = <<<<2, 2>>>>

\* ------------------------------------------- claims: retryer, continued

\* The loop waits on a pause promise nobody has resolved yet.
Suspended == pc = "paused" /\ ~gateResolved

\* What a call of continue() may touch: the pause promise and its own
\* return value.
continueLeaves ==
  <<networkMode, retry, isServer, online, focused, isRetryCancelled,
    failureCount, isResolved, continueFn, promise, pc, pauseKind,
    attemptResult, error, fnCalls, onSuccessLog, onErrorLog, onFailLog,
    onPauseCount, onContinueCount, abortCount>>

\* C11, as claimed: continue() called while the loop is suspended releases
\* the pause gate and returns the executor's promise, whatever focus and
\* connectivity say; called with no gate it returns a resolved promise and
\* changes nothing.
C11_ContinueForcesRelease ==
  [][continue =>
       IF Suspended
       THEN gateResolved' /\ continueReturn' = "promise"
       ELSE continueReturn' = "resolved"
              /\ UNCHANGED <<continueLeaves, gateResolved>>]_vars

\* C11, amended: continue() called while the loop is suspended releases
\* the pause gate and returns the executor's promise only if, at the call,
\* the handle is already resolved or the UI is focused and (the network
\* mode is `always` or the device is online); otherwise the gate stays
\* closed and continue() returns an immediately resolved promise.  Called
\* while no pause gate is installed it returns an immediately resolved
\* promise.  In every case it changes nothing but the pause promise.
C11_ContinueReleasesIfAllowed ==
  [][continue =>
       /\ UNCHANGED continueLeaves
       /\ Suspended =>
            IF isResolved \/ (focused /\ (networkMode = "always" \/ online))
            THEN gateResolved' /\ continueReturn' = "promise"
            ELSE ~gateResolved' /\ continueReturn' = "resolved"
       /\ continueFn = "undefined" =>
            /\ continueReturn' = "resolved"
            /\ gateResolved' = gateResolved]_vars

\* C11 witness: the loop is suspended no more although the handle is not
\* resolved: continue() released the gate and returned the promise, and
\* onContinue has not run yet.
C11_Witness ==
  /\ pc = "paused"
  /\ pauseKind = "retry"
  /\ gateResolved
  /\ ~isResolved
  /\ continueReturn = "promise"
  /\ onContinueCount = 0

\* What cancelRetry() and continueRetry() leave alone: all but the flag.
retryFlagLeaves ==
  <<networkMode, retry, isServer, online, focused, failureCount, isResolved,
    continueFn, promise, pc, pauseKind, gateResolved, attemptResult, error,
    fnCalls, onSuccessLog, onErrorLog, onFailLog, onPauseCount,
    onContinueCount, abortCount, continueReturn>>

\* C12: cancelRetry() and continueRetry() write the flag and nothing else,
\* the last call deciding its value.  At the first decision point (an
\* attempt failed, the handle unresolved) a set flag rejects the promise
\* with that attempt's error, leaving failureCount and the attempts as they
\* are, and a clear flag leaves the decision to the retry policy alone,
\* whatever calls came before.  At the second decision point (after the
\* delay and any pause) a set flag rejects the promise with the error of
\* the failed attempt and a clear flag starts the next attempt.  An attempt
\* that succeeds on an unresolved handle fulfils the promise with its data
\* whatever the flag says.  Once the promise is rejected no attempt starts.
C12_RetryFlagAtDecisionPoints ==
  /\ [][(cancelRetry \/ continueRetry) => UNCHANGED retryFlagLeaves]_vars
  /\ [][cancelRetry => isRetryCancelled']_vars
  /\ [][continueRetry => ~isRetryCancelled']_vars
  /\ [][\A a \in BOOLEAN :
         (OnRejected(a) /\ ~isResolved) =>
           IF isRetryCancelled \/ ~shouldRetry(a)
           THEN /\ promise' = [status |-> "rejected", value |-> attemptResult]
                /\ pc' = "done"
                /\ UNCHANGED <<fnCalls, failureCount, onFailLog>>
           ELSE /\ failureCount' = failureCount + 1
                /\ pc' = "delay"
                /\ UNCHANGED <<promise, fnCalls>>]_vars
  /\ [][(Decide /\ ~isResolved) =>
          IF isRetryCancelled
          THEN /\ promise' = [status |-> "rejected", value |-> error]
               /\ error = attemptResult
               /\ pc' = "done"
               /\ UNCHANGED <<fnCalls, failureCount, onFailLog>>
          ELSE /\ fnCalls' = fnCalls + 1
               /\ pc' = "inflight"
               /\ UNCHANGED promise]_vars
  /\ [][(OnFulfilled /\ ~isResolved) =>
          promise' = [status |-> "fulfilled", value |-> attemptResult]]_vars
  /\ [][promise.status = "rejected" => fnCalls' = fnCalls]_vars

\* C12 witness: the policy allowed MaxRetry retries and the first failure
\* was counted, so the flag was clear at the first decision point;
\* cancelRetry() came during the delay, and the second decision point
\* rejected the promise with the error of the one attempt made.
C12_Witness ==
  /\ retry = [kind |-> "number", n |-> MaxRetry]
  /\ fnCalls = 1
  /\ failureCount = 1
  /\ promise = [status |-> "rejected", value |-> Failure(1)]
  /\ isRetryCancelled
  /\ pc = "done"

\* C13, as claimed: the body of createRetryer invokes fn if and only if
\* the network mode is `always` or the device is online.
C13_StartIffAlwaysOrOnline ==
  [][createRetryer =>
       (fnCalls' = 1 <=> (networkMode = "always" \/ online))]_vars

\* C13, amended: the body of createRetryer invokes fn if and only if the
\* network mode is `always` or `offlineFirst`, or the device is online (the
\* mode then being `online` or not given); otherwise it invokes onPause,
\* installs a pause gate and does not invoke fn, no attempt is made while
\* the loop waits on that gate, and the first attempt is made by the run()
\* chained to the gate, after the gate was released and onContinue invoked.
C13_StartIffCanFetch ==
  /\ [][createRetryer =>
          IF networkMode \in {"always", "offlineFirst"} \/ online
          THEN /\ fnCalls' = 1
               /\ pc' = "inflight"
               /\ onPauseCount' = 0
               /\ continueFn' = "undefined"
          ELSE /\ fnCalls' = 0
               /\ pc' = "paused"
               /\ pauseKind' = "start"
               /\ onPauseCount' = 1
               /\ continueFn' = "set"
               /\ ~gateResolved']_vars
  /\ []((pc = "paused" /\ pauseKind = "start") => fnCalls = 0)
  /\ [][(pc # "new" /\ fnCalls = 0 /\ fnCalls' = 1) =>
          /\ pc = "startRun"
          /\ gateResolved
          /\ continueFn = "undefined"
          /\ ~isResolved
          /\ onPauseCount = 1
          /\ onContinueCount = 1]_vars

\* C13 witness: constructed offline with the network mode not given, the
\* executor paused; after the gate was released the first attempt is in
\* flight.
C13_Witness ==
  /\ networkMode = "undefined"
  /\ fnCalls = 1
  /\ pc = "inflight"
  /\ failureCount = 0
  /\ onPauseCount = 1
  /\ onContinueCount = 1

\* C15, as claimed: once isResolved is true it stays true, and no step
\* invokes fn, invokes onPause, installs a pause gate, changes failureCount
\* or invokes onFail.
C15_ResolvedIsFinal ==
  [][isResolved =>
       /\ isResolved'
       /\ fnCalls' = fnCalls
       /\ onPauseCount' = onPauseCount
       /\ continueFn = "undefined" => continueFn' = "undefined"
       /\ failureCount' = failureCount
       /\ onFailLog' = onFailLog]_vars

\* C15 witness of the divergence: cancel() resolved the handle while the
\* retry delay was elapsing; at the end of the delay shouldPause() held, so
\* pause() ran: onPause was invoked and the loop waits on a new pause gate
\* of a resolved executor.
C15_Witness ==
  /\ isResolved
  /\ abortCount = 1
  /\ failureCount = 1
  /\ pc = "paused"
  /\ pauseKind = "retry"
  /\ ~gateResolved
  /\ continueFn = "set"
  /\ onPauseCount = 1

\* C16: the step at the end of a retry delay suspends the loop exactly if
\* the UI is not focused or (the network mode is not `always` and the
\* device is offline): it then invokes onPause, installs a closed pause
\* gate and starts no attempt.  The loop leaves a suspension only after the
\* gate was released, and an attempt starts only outside a suspension.
\* onPause and onContinue alternate, onPause first: onPause is invoked only
\* when every earlier suspension has had its onContinue, and onContinue
\* only once per suspension, on leaving it, before the attempt that
\* follows; it is not invoked when the handle is resolved by then.
C16_PauseContinueAlternate ==
  /\ [](/\ onContinueCount <= onPauseCount
        /\ onPauseCount <= onContinueCount + 1
        /\ continueFn = "set" <=> pc = "paused"
        /\ pc = "paused" => onPauseCount = onContinueCount + 1)
  /\ [][DelayExpires =>
          IF ~focused \/ (networkMode # "always" /\ ~online)
          THEN /\ onPauseCount' = onPauseCount + 1
               /\ pc' = "paused"
               /\ ~gateResolved'
               /\ fnCalls' = fnCalls
          ELSE /\ onPauseCount' = onPauseCount
               /\ pc' = "decide"]_vars
  /\ [][onPauseCount' # onPauseCount =>
          /\ onPauseCount' = onPauseCount + 1
          /\ onPauseCount = onContinueCount
          /\ onContinueCount' = onContinueCount
          /\ pc' = "paused"]_vars
  /\ [][onContinueCount' # onContinueCount =>
          /\ onContinueCount' = onContinueCount + 1
          /\ onPauseCount' = onPauseCount
          /\ pc = "paused" /\ pc' # "paused"
          /\ ~isResolved
          /\ fnCalls' = fnCalls]_vars
  /\ [][(pc = "paused" /\ pc' # "paused") =>
          /\ gateResolved
          /\ onContinueCount' =
               IF isResolved THEN onContinueCount ELSE onContinueCount + 1]_vars
  /\ [][fnCalls' # fnCalls =>
          (pc # "paused" /\ onPauseCount = onContinueCount)]_vars

\* C16 witness: with network mode `always` the first attempt failed, the
\* delay ended with the UI unfocused, the loop suspended (onPause), the gate
\* was released, onContinue was invoked and the second attempt is in flight.
C16_Witness ==
  /\ networkMode = "always"
  /\ pauseKind = "retry"
  /\ failureCount = 1
  /\ fnCalls = 2
  /\ pc = "inflight"
  /\ onPauseCount = 1
  /\ onContinueCount = 1
  /\ ~isResolved

\* C16 witness: the handle was cancelled while the loop was suspended after
\* a delay; the loop left the suspension without invoking onContinue.
C16_WitnessSkipped ==
  /\ pauseKind = "retry"
  /\ pc = "done"
  /\ onPauseCount = 1
  /\ onContinueCount = 0
  /\ abortCount = 1
  /\ fnCalls = 1

\* C17, as claimed: failureCount and the onFail invocations go together,
\* and when the handle has settled without an effective cancel() (abort
\* was never invoked), every counted failure was followed by a further
\* attempt: fn was invoked once more than failureCount.
C17_IncrementThenAttempt ==
  /\ failureCount = Len(onFailLog)
  /\ (abortCount = 0 /\ promise.status # "pending")
       => fnCalls = failureCount + 1

\* C17, amended: failureCount starts at 0 and changes only by the catch
\* handler of a rejected attempt on an unresolved handle with retrying not
\* cancelled and the policy allowing a retry: by exactly 1, with onFail
\* invoked with the new count and that attempt's error, the promise left
\* pending and the delay started.  A failure that rejects the promise from
\* the catch handler changes neither failureCount nor onFail.  When the
\* handle has settled without an effective cancel(), every counted failure
\* was followed by a further attempt, except the last one if cancelRetry()
\* was in force at the decision after its delay: the promise is then
\* rejected with the error of that counted attempt.
C17_IncrementOnRetryDecision ==
  /\ [](/\ failureCount = Len(onFailLog)
        /\ \A i \in 1 .. Len(onFailLog) : onFailLog[i] = <<i, Failure(i)>>
        /\ pc = "new" => failureCount = 0
        /\ failureCount <= fnCalls
        /\ (abortCount = 0 /\ promise.status # "pending") =>
             \/ fnCalls = failureCount + 1
             \/ /\ fnCalls = failureCount
                /\ promise = [status |-> "rejected",
                              value |-> Failure(fnCalls)])
  /\ [][failureCount' # failureCount =>
          /\ failureCount' = failureCount + 1
          /\ onFailLog' = Append(onFailLog, <<failureCount + 1, attemptResult>>)
          /\ pc = "settled" /\ attemptResult.kind = "error"
          /\ ~isResolved /\ ~isRetryCancelled
          /\ \E a \in BOOLEAN : shouldRetry(a)
          /\ pc' = "delay"
          /\ promise' = promise]_vars
  /\ [][(pc = "settled" /\ promise'.status # promise.status) =>
          UNCHANGED <<failureCount, onFailLog>>]_vars
  /\ [][(abortCount' = 0 /\ promise'.status # promise.status
            /\ fnCalls = failureCount) =>
          /\ pc = "decide"
          /\ isRetryCancelled
          /\ promise' = [status |-> "rejected", value |-> error]]_vars

\* C17 witness: two failures counted, each followed by a further attempt;
\* the third attempt succeeded.
C17_Witness ==
  /\ failureCount = 2
  /\ onFailLog = <<<<1, Failure(1)>>, <<2, Failure(2)>>>>
  /\ fnCalls = 3
  /\ promise = [status |-> "fulfilled", value |-> Data(3)]
  /\ abortCount = 0

\* C20: with a numeric retry policy, every attempt settling, every delay
\* ending and every due promise reaction running: if every suspension on
\* the pause gate comes to an end (as it does when it is followed by a
\* continue() call made while the UI is focused and connectivity allows),
\* the executor is eventually resolved.
C20_EventuallyResolved ==
  [](Suspended => <>~Suspended) => <>isResolved

\* C20 witness: the first attempt failed, the loop was suspended after the
\* delay and released, the policy's one retry failed too: the promise is
\* rejected with the error of the second attempt.
C20_Witness ==
  /\ retry = [kind |-> "number", n |-> 1]
  /\ onPauseCount = 1
  /\ onContinueCount = 1
  /\ fnCalls = 2
  /\ isResolved
  /\ promise = [status |-> "rejected", value |-> Failure(2)]

\* ---------------------------------------- claims: notify manager, continued

\* C14: a callback passed to schedule() while closure t of scheduleFn is
\* delivering (from inside a callback t is invoking, inside a batch or not)
\* is no member of t or of any closure dispatched before, and is invoked
\* only by a closure dispatched later than t; the callbacks of a closure
\* and their order are fixed when it is handed to scheduleFn; and the
\* schedule() call itself invokes nothing.
C14_ScheduleDuringPassDeferred ==
  /\ [](\A t \in 1 .. Len(dispatched) :
          \A k \in 1 .. Len(dispatched[t].cbs) :
            scheduled[dispatched[t].cbs[k]].during < t)
  /\ [](\A i \in 1 .. Len(delivered) :
          scheduled[delivered[i][1]].during < delivered[i][2])
  /\ [][\A t \in 1 .. Len(dispatched) : dispatched'[t] = dispatched[t]]_vars
  /\ [][Len(scheduled') > Len(scheduled) =>
          /\ delivered' = delivered
          /\ ctx = "task" =>
               /\ scheduled'[Len(scheduled')].during = current
               /\ \A k \in 1 .. Len(dispatched'[current].cbs) :
                    dispatched'[current].cbs[k] # Len(scheduled')]_vars

\* C14 witness: closure 1, a flush pass holding callbacks 1 and 2, was
\* delivering when callback 3 was passed to schedule() inside a batch; the
\* pass delivered 1 and 2, and callback 3 was delivered by closure 2, a
\* later flush pass.
C14_Witness ==
  /\ Len(dispatched) = 2
  /\ dispatched[1].kind = "pass"
  /\ dispatched[1].cbs = <<1, 2>>
  /\ dispatched[2].kind = "pass"
  /\ scheduled[3].during = 1
  /\ scheduled[3].depth = 1
  /\ delivered = <<<<1, 1>>, <<2, 1>>, <<3, 2>>>>

\* The callbacks invoked so far, in order of invocation.
DeliveredCbs == [i \in 1 .. Len(delivered) |-> delivered[i][1]]

\* C18: scheduleFn running its closures first in, first out, and no
\* delivered callback having thrown: the callbacks are invoked in the order
\* of their schedule() calls, whether these were made outside a batch,
\* inside one or inside nested ones, from user code or from a callback
\* being delivered; none is invoked twice; and when nothing runs and no
\* closure waits, every callback passed to schedule() has been invoked
\* exactly once.
C18_GlobalScheduleOrder ==
  aborted = {} =>
    /\ \A i, j \in 1 .. Len(delivered) :
         i < j => delivered[i][1] < delivered[j][1]
    /\ \A i \in 1 .. Len(delivered) : delivered[i][1] <= Len(scheduled)
    /\ (ctx = "idle" /\ tasks = <<>>) =>
         DeliveredCbs = [i \in 1 .. Len(scheduled) |-> i]

\* C18 witness: callback 1 was scheduled outside a batch, callback 2 in a
\* batch and callback 3 in a batch nested in it; all three were delivered,
\* in that order, by two closures, and nothing is left to run.
C18_Witness ==
  /\ Len(scheduled) = 3
  /\ scheduled[1].depth = 0
  /\ scheduled[2].depth = 1
  /\ scheduled[3].depth = 2
  /\ delivered = <<<<1, 1>>, <<2, 2>>, <<3, 2>>>>
  /\ aborted = {}
  /\ ctx = "idle"
  /\ tasks = <<>>

\* ------------------------------------------ claims: Subscribable, continued

\* The listener the i-th call of subLog was about.
ListenerOf(i) == handles[subLog[i].handle]

\* The references whose latest call in subLog is a subscribe().
Registered ==
  {l \in Listeners :
     \E i \in 1 .. Len(subLog) :
       /\ ListenerOf(i) = l
       /\ subLog[i].op = "subscribe"
       /\ \A j \in i + 1 .. Len(subLog) : ListenerOf(j) # l}

\* C19: subscriptions are not counted.  The listener set holds exactly
\* the references whose latest call was a subscribe(), however many
\* subscribe() calls and handles there are for one reference; invoking any
\* one handle of l leaves l out of the set; and hasListeners() says whether
\* that set of distinct references is non-empty.
C19_NoSubscriptionCount ==
  /\ listeners = Registered
  /\ hasListeners <=> Registered # {}
  /\ \A j \in 1 .. Len(subLog) :
       subLog[j].op = "unsubscribe" => ListenerOf(j) \notin subLog[j].after

\* C19 witness: subscribe(l) was called twice and only the first handle
\* was invoked: the second handle was never invoked, and the registry is
\* empty.
C19_Witness ==
  /\ handles = <<1, 1>>
  /\ Len(subLog) = 3
  /\ subLog[3].op = "unsubscribe"
  /\ subLog[3].handle = 1
  /\ subLog[3].before = {1}
  /\ listeners = {}
  /\ ~hasListeners

=============================================================================
